---------------------------- MODULE Spec2Model ----------------------------
(***************************************************************************)
(* Model of the stage-1 bootloader of ESPHostedEVB:                        *)
(*   - the SFUD port layer (sfud_port.c): the quad transport               *)
(*     (qspi_write_read, qspi_send_then_recv, qspi_read), the serial       *)
(*     transport (spi_write_read), the memory-mapped mode controller       *)
(*     (qspi_entry_memory_mapped_mode, qspi_exit_memory_mapped_mode) and   *)
(*     the critical-section lock (spi_lock, spi_unlock);                   *)
(*   - the boot hand-off (main.c): main, EntryApp, JumpToApp.              *)
(*                                                                         *)
(* The vendor HAL primitives (HAL_OSPI_Command, HAL_OSPI_Receive,          *)
(* HAL_OSPI_Transmit, HAL_OSPI_MemoryMapped, HAL_OSPI_Abort,               *)
(* HAL_SPI_TransmitReceive, malloc) are not part of the sources: each      *)
(* call is an input that either succeeds or fails.                         *)
(***************************************************************************)
EXTENDS Integers, Sequences, FiniteSets, TLC

\* ------------------------------------------------------------------ bounds

\* Longest write stream (write_size) a caller passes.
MaxWrite == 5
\* Largest read_size a caller passes.
MaxRead == 2
\* Cap on the number of scratch buffers that may stay unreleased.
MaxLeak == 1
\* Deepest nesting of spi_lock calls the driver makes (one per flash device).
MaxNest == 2

\* --------------------------------------------------------------- constants

SFUD_SUCCESS == "SFUD_SUCCESS"
SFUD_ERR_WRITE == "SFUD_ERR_WRITE"
SFUD_ERR_READ == "SFUD_ERR_READ"
SFUD_ERR_TIMEOUT == "SFUD_ERR_TIMEOUT"

CommandMode == "CommandMode"
MemoryMappedMode == "MemoryMappedMode"

\* Base of the memory-mapped window of the quad transport.  The code only adds
\* offsets to it and stores it, so the model keeps an address below 2^31 (the
\* model checker's integers are 32-bit).
OCTOSPI1_BASE == 1879048192
\* sizeof(uint32_t)
WordSize == 4
\* Number of NVIC register banks JumpToApp walks.
NvicBanks == 8
\* The fill byte of the serial transport's send buffer.
SFUD_DUMMY_DATA == 255

\* ospi1.cs_gpiox: the quad device has no discrete chip-select line.
ospi1_cs_gpiox == "NULL"

VARIABLES
  pc,            \* position of main(): "driver" (inside sfud_init, between two
                 \* transport calls), "return" (a transport call has just
                 \* returned), "EntryApp", the steps of JumpToApp, "app"
  mode,          \* functional mode of the OCTOSPI controller (CR.FMODE)
  primask,       \* TRUE: global interrupt delivery disabled
  locks,         \* spi_lock calls of the driver not yet matched by spi_unlock
  flash_cs,      \* level of the serial flash chip-select pin: "SET" | "RESET"
  allocated,     \* scratch buffers malloc'ed and not yet freed
  call,          \* the transport call that just returned: operation, inputs, results
  prev,          \* the call before it, when that was a call of the mode controller
                 \* (entry or exit): the operation and the mode it ran in
  bus,           \* bus primitives and pin writes issued by the last call, in order
  image,         \* words the CPU reads in the mapped window, by offset
  init_result,   \* what sfud_init() returned
  hand,          \* locals and globals of EntryApp / JumpToApp
  machine,       \* machine-control registers the hand-off programs
  steps          \* hand-off steps executed so far, in order

vars == <<pc, mode, primask, locks, flash_cs, allocated, call, prev, bus, image,
          init_result, hand, machine, steps>>

\* ------------------------------------------------------------------ inputs

\* Two byte patterns; a write stream is a prefix of one of them.
PatternByte(p, i) ==
  IF p = 1 THEN (11 + 17 * (i - 1)) % 256 ELSE (159 + 53 * (i - 1)) % 256

WriteBuf(p, n) == [i \in 1..n |-> PatternByte(p, i)]

Patterns == {1, 2}

\* Line widths a ReadCommandFormat may carry: the five valid ones and an invalid one.
ValidLines == {0, 1, 2, 4, 8}
LineInputs == ValidLines \cup {3}

\* ReadCommandFormat records: every width at every phase, the other two phases
\* on one line.
ReadFormats ==
  { [instruction |-> 235, instruction_lines |-> a, address_lines |-> b,
     data_lines |-> c, dummy_cycles |-> d] :
       <<a, b, c>> \in { t \in LineInputs \X LineInputs \X LineInputs :
                          Cardinality({k \in 1..3 : t[k] # 1}) <= 1 },
       d \in {6} }

\* Boot images: word 0 = initial stack pointer, word 1 = entry address.
Images ==
  { [o \in {0, 4, 8} |-> IF o = 0 THEN 43690 ELSE IF o = 4 THEN 48059 ELSE 52428],
    [o \in {0, 4, 8} |-> IF o = 0 THEN 48059 ELSE IF o = 4 THEN 43690 ELSE 52428] }

NoFormat ==
  [instruction |-> 0, instruction_lines |-> 0, address_lines |-> 0,
   data_lines |-> 0, dummy_cycles |-> 0]

\* The record of a transport call: the operation, its inputs, the state it was
\* called in (m: controller mode, irq_off: interrupt delivery disabled), its
\* return value, the value its inner qspi_send_then_recv returned, and the
\* bytes it stored in read_buf.
MkCall(op, wb, rs, addr, fmt, m, irq_off, ret, inner, data) ==
  [op |-> op, write_buf |-> wb, read_size |-> rs, addr |-> addr, fmt |-> fmt,
   mode |-> m, irq_off |-> irq_off, ret |-> ret, inner |-> inner, data |-> data]

NoCall == MkCall("none", <<>>, 0, 0, NoFormat, CommandMode, FALSE, "none", "none", <<>>)

\* --------------------------------------------------------------- the state

InitMachine ==
  [ mpu |-> TRUE, dcache |-> TRUE, icache |-> TRUE,
    SysTick |-> [CTRL |-> 7, LOAD |-> 549999, VAL |-> 1234],
    nvic_enabled |-> {0, 7}, nvic_pending |-> {1, 7},
    MSP |-> 0, CONTROL |-> 0, VTOR |-> 0,
    entered |-> -1, transfers |-> 0 ]

InitHand ==
  [ stack_top |-> 0, vector_addr |-> 0, entry_addr |-> 0,
    global_stack_top |-> 0, global_vector_addr |-> 0, global_entry_addr |-> 0,
    entry_ret |-> "none", i |-> 0 ]

Init ==
  /\ pc = "driver"
  /\ mode = CommandMode
  /\ primask = FALSE
  /\ locks = 0
  /\ flash_cs = "SET"
  /\ allocated = 0
  /\ call = NoCall
  /\ prev = [op |-> "none", mode |-> CommandMode]
  /\ bus = <<>>
  /\ image \in Images
  /\ init_result = "none"
  /\ hand = InitHand
  /\ machine = InitMachine
  /\ steps = <<>>

\* ------------------------------------------------------- the bus primitives

\* OSPI_RegularCmdTypeDef after memset(&Cmdhandler, 0, ...): every mode field
\* holds its zero encoding, which is the HAL's "NONE".
ZeroCmd ==
  [Instruction |-> 0, InstructionMode |-> "NONE", Address |-> 0,
   AddressMode |-> "NONE", AddressSize |-> "0", DataMode |-> "NONE",
   NbData |-> 0, DummyCycles |-> 0]

\* One entry of the bus log: a HAL primitive (or a chip-select pin write), whether
\* it returned HAL_OK, the command (or configuration) it carried, and whether
\* interrupt delivery was disabled when it ran.
Ev(prim, ok, cmd, data) ==
  [prim |-> prim, ok |-> ok, cmd |-> cmd, data |-> data, irq_off |-> primask]

HAL_OSPI_Command(cmd, ok) == Ev("HAL_OSPI_Command", ok, cmd, <<>>)
HAL_OSPI_Receive(ok) == Ev("HAL_OSPI_Receive", ok, ZeroCmd, <<>>)
HAL_OSPI_Transmit(data, ok) == Ev("HAL_OSPI_Transmit", ok, ZeroCmd, data)
HAL_OSPI_MemoryMapped(cfg, ok) == Ev("HAL_OSPI_MemoryMapped", ok, cfg, <<>>)
HAL_OSPI_Abort(ok) == Ev("HAL_OSPI_Abort", ok, ZeroCmd, <<>>)
HAL_SPI_TransmitReceive(data, ok) == Ev("HAL_SPI_TransmitReceive", ok, ZeroCmd, data)
HAL_GPIO_WritePin(level) ==
  Ev(IF level = "RESET" THEN "HAL_GPIO_WritePin:RESET" ELSE "HAL_GPIO_WritePin:SET",
     TRUE, ZeroCmd, <<>>)

\* The controller mode after HAL_OSPI_MemoryMapped: direct-mapped when it
\* succeeds, unchanged when it fails.
ModeAfterMemoryMapped(m, ok) == IF ok THEN MemoryMappedMode ELSE m

\* The controller mode after HAL_OSPI_Abort: command mode when it succeeds; when
\* it fails the mode is either one (restored says which).
ModeAfterAbort(m, ok, restored) == IF ok \/ restored THEN CommandMode ELSE m

\* The primitives that drive the bus itself (everything but pin writes).
BusPrims ==
  {"HAL_OSPI_Command", "HAL_OSPI_Receive", "HAL_OSPI_Transmit",
   "HAL_OSPI_MemoryMapped", "HAL_OSPI_Abort", "HAL_SPI_TransmitReceive"}

Count(log, prim) == Cardinality({k \in 1..Len(log) : log[k].prim = prim})

\* ------------------------------------------------------ the quad transport

\* Mutant of in_memory_mapping: the mode check never fires.
in_memory_mapping_never == FALSE

\* (CR & OCTOSPI_CR_FMODE_Msk) == OCTOSPI_CR_FMODE
in_memory_mapping == mode = MemoryMappedMode

\* Mutant of FrameHeader: a stream of 2 or 3 bytes is accepted and the address is
\* decoded from the bytes there are.
FrameHeader_partial(ptr, send_length) ==
  LET base == [ZeroCmd EXCEPT !.Instruction = ptr[1],
                              !.InstructionMode = "1_LINE"]
      b(k) == IF k <= send_length THEN ptr[k] ELSE 0
  IN IF send_length > 1
       THEN [ok |-> TRUE, count |-> IF send_length >= 4 THEN 4 ELSE send_length,
             cmd |-> [base EXCEPT
                        !.Address = b(2) * 65536 + b(3) * 256 + b(4),
                        !.AddressSize = "24_BITS",
                        !.AddressMode = "1_LINE"]]
       ELSE [ok |-> TRUE, count |-> 1,
             cmd |-> [base EXCEPT !.Address = 0, !.AddressMode = "NONE",
                                  !.AddressSize = "0"]]

\* Mutant of FrameHeader: the three address bytes are taken in the opposite
\* order.
FrameHeader_little_endian(ptr, send_length) ==
  LET base == [ZeroCmd EXCEPT !.Instruction = ptr[1],
                              !.InstructionMode = "1_LINE"]
  IN IF send_length > 1
       THEN IF send_length >= 4
              THEN [ok |-> TRUE, count |-> 4,
                    cmd |-> [base EXCEPT
                               !.Address = ptr[4] * 65536 + ptr[3] * 256 + ptr[2],
                               !.AddressSize = "24_BITS",
                               !.AddressMode = "1_LINE"]]
              ELSE [ok |-> FALSE, count |-> 1, cmd |-> base]
       ELSE [ok |-> TRUE, count |-> 1,
             cmd |-> [base EXCEPT !.Address = 0, !.AddressMode = "NONE",
                                  !.AddressSize = "0"]]

\* qspi_send_then_recv, "get instruction" and "get address": the header of the
\* frame decoded from the send stream.  ok = FALSE is the early return
\* SFUD_ERR_READ for a stream of 2 or 3 bytes.
FrameHeader(ptr, send_length) ==
  LET base == [ZeroCmd EXCEPT !.Instruction = ptr[1],
                              !.InstructionMode = "1_LINE"]
  IN IF send_length > 1
       THEN IF send_length >= 4
              THEN [ok |-> TRUE, count |-> 4,
                    cmd |-> [base EXCEPT
                               !.Address = ptr[2] * 65536 + ptr[3] * 256 + ptr[4],
                               !.AddressSize = "24_BITS",
                               !.AddressMode = "1_LINE"]]
              ELSE [ok |-> FALSE, count |-> 1, cmd |-> base]
       ELSE [ok |-> TRUE, count |-> 1,
             cmd |-> [base EXCEPT !.Address = 0, !.AddressMode = "NONE",
                                  !.AddressSize = "0"]]

\* Mutant of qspi_send_then_recv: the dummy phase of a receive is counted in
\* bytes, not in clock cycles.
qspi_send_then_recv_dummy_bytes(ptr, send_length, recv_null, recv_length, cmdOk, dataOk) ==
  LET h == FrameHeader(ptr, send_length)
      count == h.count
  IN IF ~h.ok
       THEN [result |-> SFUD_ERR_READ, bus |-> <<>>]
     ELSE IF ~recv_null
       THEN LET cmd == [h.cmd EXCEPT
                          !.DummyCycles = IF count # send_length
                                            THEN send_length - count ELSE 0,
                          !.DataMode = "1_LINE",
                          !.NbData = recv_length]
            IN IF ~cmdOk
                 THEN [result |-> SFUD_ERR_READ,
                       bus |-> <<HAL_OSPI_Command(cmd, FALSE)>>]
               ELSE IF recv_length # 0
                 THEN [result |-> IF dataOk THEN SFUD_SUCCESS ELSE SFUD_ERR_READ,
                       bus |-> <<HAL_OSPI_Command(cmd, TRUE),
                                 HAL_OSPI_Receive(dataOk)>>]
               ELSE [result |-> SFUD_SUCCESS,
                     bus |-> <<HAL_OSPI_Command(cmd, TRUE)>>]
     ELSE LET cmd == [h.cmd EXCEPT
                        !.DummyCycles = 0,
                        !.DataMode = IF send_length - count > 0
                                       THEN "1_LINE" ELSE "NONE",
                        !.NbData = send_length - count]
          IN IF ~cmdOk
               THEN [result |-> SFUD_ERR_READ,
                     bus |-> <<HAL_OSPI_Command(cmd, FALSE)>>]
             ELSE IF send_length - count > 0
               THEN [result |-> IF dataOk THEN SFUD_SUCCESS ELSE SFUD_ERR_WRITE,
                     bus |-> <<HAL_OSPI_Command(cmd, TRUE),
                               HAL_OSPI_Transmit(SubSeq(ptr, count + 1, send_length),
                                                  dataOk)>>]
             ELSE [result |-> SFUD_SUCCESS,
                   bus |-> <<HAL_OSPI_Command(cmd, TRUE)>>]

\* qspi_send_then_recv: the value it returns and the primitives it issues.
\* recv_null: recv_buf is NULL (the send-only call of qspi_write_read).
qspi_send_then_recv(ptr, send_length, recv_null, recv_length, cmdOk, dataOk) ==
  LET h == FrameHeader(ptr, send_length)
      count == h.count
  IN IF ~h.ok
       THEN [result |-> SFUD_ERR_READ, bus |-> <<>>]
     ELSE IF ~recv_null
       THEN LET cmd == [h.cmd EXCEPT
                          !.DummyCycles = IF count # send_length
                                            THEN (send_length - count) * 8 ELSE 0,
                          !.DataMode = "1_LINE",
                          !.NbData = recv_length]
            IN IF ~cmdOk
                 THEN [result |-> SFUD_ERR_READ,
                       bus |-> <<HAL_OSPI_Command(cmd, FALSE)>>]
               ELSE IF recv_length # 0
                 THEN [result |-> IF dataOk THEN SFUD_SUCCESS ELSE SFUD_ERR_READ,
                       bus |-> <<HAL_OSPI_Command(cmd, TRUE),
                                 HAL_OSPI_Receive(dataOk)>>]
               ELSE [result |-> SFUD_SUCCESS,
                     bus |-> <<HAL_OSPI_Command(cmd, TRUE)>>]
     ELSE LET cmd == [h.cmd EXCEPT
                        !.DummyCycles = 0,
                        !.DataMode = IF send_length - count > 0
                                       THEN "1_LINE" ELSE "NONE",
                        !.NbData = send_length - count]
          IN IF ~cmdOk
               THEN [result |-> SFUD_ERR_READ,
                     bus |-> <<HAL_OSPI_Command(cmd, FALSE)>>]
             ELSE IF send_length - count > 0
               THEN [result |-> IF dataOk THEN SFUD_SUCCESS ELSE SFUD_ERR_WRITE,
                     bus |-> <<HAL_OSPI_Command(cmd, TRUE),
                               HAL_OSPI_Transmit(SubSeq(ptr, count + 1, send_length),
                                                  dataOk)>>]
             ELSE [result |-> SFUD_SUCCESS,
                   bus |-> <<HAL_OSPI_Command(cmd, TRUE)>>]

\* qspi_write_read when the controller is not memory-mapped: chip select,
\* the dispatch on the two sizes, and the value returned.
qspi_write_read_body(wb, rs, cmdOk, dataOk) ==
  LET ws == Len(wb)
      csOn == IF ospi1_cs_gpiox # "NULL"
                THEN <<HAL_GPIO_WritePin("RESET")>> ELSE <<>>
      csOff == IF ospi1_cs_gpiox # "NULL"
                 THEN <<HAL_GPIO_WritePin("SET")>> ELSE <<>>
      inner == IF ws # 0 /\ rs # 0
                 THEN qspi_send_then_recv(wb, ws, FALSE, rs, cmdOk, dataOk)
               ELSE IF ws # 0
                 THEN qspi_send_then_recv(wb, ws, TRUE, 0, cmdOk, dataOk)
               ELSE [result |-> "none", bus |-> <<>>]
  IN [ret |-> SFUD_SUCCESS, inner |-> inner.result,
      bus |-> csOn \o inner.bus \o csOff]

\* Mutant of qspi_write_read: in memory-mapped mode the call leaves the mode by
\* itself (qspi_exit_memory_mapped_mode) and then runs the transaction.
qspi_write_read_auto_exit(wb, rs, cmdOk, dataOk) ==
  /\ pc = "driver"
  /\ locks > 0
  /\ pc' = "return"
  /\ LET r == qspi_write_read_body(wb, rs, cmdOk, dataOk)
         exit == IF in_memory_mapping THEN <<HAL_OSPI_Abort(TRUE)>> ELSE <<>>
     IN /\ call' = MkCall("qspi_write_read", wb, rs, 0, NoFormat, mode, primask,
                          r.ret, r.inner, <<>>)
        /\ bus' = exit \o r.bus
  /\ mode' = CommandMode
  /\ UNCHANGED <<primask, locks, flash_cs, allocated, prev, image, init_result,
                 hand, machine, steps>>

\* sfud_err qspi_write_read(spi, write_buf, write_size, read_buf, read_size)
qspi_write_read(wb, rs, cmdOk, dataOk) ==
  /\ pc = "driver"
  /\ locks > 0
  /\ pc' = "return"
  /\ LET r == IF in_memory_mapping
                THEN [ret |-> SFUD_ERR_WRITE, inner |-> "none", bus |-> <<>>]
                ELSE qspi_write_read_body(wb, rs, cmdOk, dataOk)
     IN /\ call' = MkCall("qspi_write_read", wb, rs, 0, NoFormat, mode, primask,
                          r.ret, r.inner, <<>>)
        /\ bus' = r.bus
  /\ UNCHANGED <<mode, primask, locks, flash_cs, allocated, prev, image, init_result,
                 hand, machine, steps>>

\* ---------------------------------------------- line widths and fast read

\* switch (instruction_lines): the instruction phase's line mode; any width other
\* than the five cases leaves the zeroed field as it is.
InstructionMode(lines) ==
  CASE lines = 0 -> "NONE"
    [] lines = 1 -> "1_LINE"
    [] lines = 2 -> "2_LINES"
    [] lines = 4 -> "4_LINES"
    [] lines = 8 -> "8_LINES"
    [] OTHER -> ZeroCmd.InstructionMode

\* switch (address_lines)
AddressMode(lines) ==
  CASE lines = 0 -> "NONE"
    [] lines = 1 -> "1_LINE"
    [] lines = 2 -> "2_LINES"
    [] lines = 4 -> "4_LINES"
    [] lines = 8 -> "8_LINES"
    [] OTHER -> ZeroCmd.AddressMode

\* switch (data_lines)
DataMode(lines) ==
  CASE lines = 0 -> "NONE"
    [] lines = 1 -> "1_LINE"
    [] lines = 2 -> "2_LINES"
    [] lines = 4 -> "4_LINES"
    [] lines = 8 -> "8_LINES"
    [] OTHER -> ZeroCmd.DataMode

\* The command qspi_read and qspi_entry_memory_mapped_mode build from a
\* ReadCommandFormat (qspi_read: the caller's address and read_size; mode entry:
\* no address value and a zero payload length).
FormatCmd(fmt, addr, nb) ==
  [ZeroCmd EXCEPT !.Instruction = fmt.instruction,
                  !.InstructionMode = InstructionMode(fmt.instruction_lines),
                  !.Address = addr,
                  !.AddressMode = AddressMode(fmt.address_lines),
                  !.AddressSize = "24_BITS",
                  !.DataMode = DataMode(fmt.data_lines),
                  !.NbData = nb,
                  !.DummyCycles = fmt.dummy_cycles]

\* The byte at an offset of the mapped window (words are little-endian).
MappedByte(o) ==
  LET w == image[o - (o % WordSize)]
      k == o % WordSize
  IN (w \div (IF k = 0 THEN 1 ELSE IF k = 1 THEN 256
               ELSE IF k = 2 THEN 65536 ELSE 16777216)) % 256

MappedBytes(addr, n) == [j \in 1..n |-> MappedByte(addr + j - 1)]

\* Mutant of qspi_read_body: a failed command phase is issued a second time.
qspi_read_body_retry(addr, fmt, rs, cmdOk, rcvOk) ==
  LET cmd == FormatCmd(fmt, addr, rs)
  IN IF ~cmdOk
       THEN [ret |-> SFUD_SUCCESS, data |-> MappedBytes(addr, rs),
             bus |-> <<HAL_OSPI_Command(cmd, FALSE), HAL_OSPI_Command(cmd, TRUE),
                       HAL_OSPI_Receive(TRUE)>>]
       ELSE [ret |-> IF rcvOk THEN SFUD_SUCCESS ELSE SFUD_ERR_READ,
             data |-> IF rcvOk THEN MappedBytes(addr, rs) ELSE <<>>,
             bus |-> <<HAL_OSPI_Command(cmd, TRUE), HAL_OSPI_Receive(rcvOk)>>]

\* Mutant of qspi_read_body: the result of the receive is not looked at.
qspi_read_body_receive_unchecked(addr, fmt, rs, cmdOk, rcvOk) ==
  LET cmd == FormatCmd(fmt, addr, rs)
  IN IF ~cmdOk
       THEN [ret |-> SFUD_ERR_READ, data |-> <<>>,
             bus |-> <<HAL_OSPI_Command(cmd, FALSE)>>]
       ELSE [ret |-> SFUD_SUCCESS,
             data |-> IF rcvOk THEN MappedBytes(addr, rs) ELSE <<>>,
             bus |-> <<HAL_OSPI_Command(cmd, TRUE), HAL_OSPI_Receive(rcvOk)>>]

\* qspi_read when the controller is not memory-mapped: one command, then one
\* receive.
qspi_read_body(addr, fmt, rs, cmdOk, rcvOk) ==
  LET cmd == FormatCmd(fmt, addr, rs)
  IN IF ~cmdOk
       THEN [ret |-> SFUD_ERR_READ, data |-> <<>>,
             bus |-> <<HAL_OSPI_Command(cmd, FALSE)>>]
       ELSE [ret |-> IF rcvOk THEN SFUD_SUCCESS ELSE SFUD_ERR_READ,
             data |-> IF rcvOk THEN MappedBytes(addr, rs) ELSE <<>>,
             bus |-> <<HAL_OSPI_Command(cmd, TRUE), HAL_OSPI_Receive(rcvOk)>>]

\* sfud_err qspi_read(spi, addr, qspi_read_cmd_format, read_buf, read_size)
qspi_read(addr, fmt, rs, cmdOk, rcvOk) ==
  /\ pc = "driver"
  /\ locks > 0
  /\ pc' = "return"
  /\ LET r == IF in_memory_mapping
                THEN [ret |-> SFUD_SUCCESS, data |-> MappedBytes(addr, rs),
                      bus |-> <<>>]
                ELSE qspi_read_body(addr, fmt, rs, cmdOk, rcvOk)
     IN /\ call' = MkCall("qspi_read", <<>>, rs, addr, fmt, mode, primask,
                          r.ret, "none", r.data)
        /\ bus' = r.bus
  /\ UNCHANGED <<mode, primask, locks, flash_cs, allocated, prev, image, init_result,
                 hand, machine, steps>>

\* ---------------------------------------------------- the serial transport

\* The bytes the serial flash shifts out during a transfer of n bytes.
Miso(n) == [j \in 1..n |-> (3 + 7 * j) % 256]

\* Mutant of spi_write_read_body: the copy-out takes the first read_size received
\* bytes, not the ones after the write_size bytes of the command.
spi_write_read_body_copy_head(wb, rs, sendAlloc, recvAlloc, xferOk) ==
  LET ws == Len(wb)
      buf_size == ws + rs
      send_buf == [j \in 1..buf_size |-> IF j <= ws THEN wb[j] ELSE SFUD_DUMMY_DATA]
      recv_buf == Miso(buf_size)
  IN IF ~sendAlloc \/ ~recvAlloc
       THEN [ret |-> SFUD_ERR_WRITE, data |-> <<>>, bus |-> <<>>,
             cs |-> flash_cs,
             leak |-> (IF sendAlloc THEN 1 ELSE 0) + (IF recvAlloc THEN 1 ELSE 0)]
     ELSE IF ~xferOk
       THEN [ret |-> SFUD_ERR_TIMEOUT, data |-> <<>>,
             bus |-> <<HAL_GPIO_WritePin("RESET"),
                       HAL_SPI_TransmitReceive(send_buf, FALSE)>>,
             cs |-> "RESET", leak |-> 0]
     ELSE [ret |-> SFUD_SUCCESS,
           data |-> SubSeq(recv_buf, 1, rs),
           bus |-> <<HAL_GPIO_WritePin("RESET"),
                     HAL_SPI_TransmitReceive(send_buf, TRUE),
                     HAL_GPIO_WritePin("SET")>>,
           cs |-> "SET", leak |-> 0]

\* Mutant of spi_write_read_body: the chip select is asserted before the result
\* of the two allocations is looked at.
spi_write_read_body_cs_first(wb, rs, sendAlloc, recvAlloc, xferOk) ==
  LET ws == Len(wb)
      buf_size == ws + rs
      send_buf == [j \in 1..buf_size |-> IF j <= ws THEN wb[j] ELSE SFUD_DUMMY_DATA]
      recv_buf == Miso(buf_size)
  IN IF ~sendAlloc \/ ~recvAlloc
       THEN [ret |-> SFUD_ERR_WRITE, data |-> <<>>,
             bus |-> <<HAL_GPIO_WritePin("RESET")>>,
             cs |-> "RESET",
             leak |-> (IF sendAlloc THEN 1 ELSE 0) + (IF recvAlloc THEN 1 ELSE 0)]
     ELSE IF ~xferOk
       THEN [ret |-> SFUD_ERR_TIMEOUT, data |-> <<>>,
             bus |-> <<HAL_GPIO_WritePin("RESET"),
                       HAL_SPI_TransmitReceive(send_buf, FALSE)>>,
             cs |-> "RESET", leak |-> 0]
     ELSE [ret |-> SFUD_SUCCESS,
           data |-> SubSeq(recv_buf, ws + 1, ws + rs),
           bus |-> <<HAL_GPIO_WritePin("RESET"),
                     HAL_SPI_TransmitReceive(send_buf, TRUE),
                     HAL_GPIO_WritePin("SET")>>,
           cs |-> "SET", leak |-> 0]

\* spi_write_read after the size check: the two allocations, the chip select,
\* the full-duplex transfer, the copy-out and the releases.
\* leak: buffers allocated and not freed when the call returns.
spi_write_read_body(wb, rs, sendAlloc, recvAlloc, xferOk) ==
  LET ws == Len(wb)
      buf_size == ws + rs
      send_buf == [j \in 1..buf_size |-> IF j <= ws THEN wb[j] ELSE SFUD_DUMMY_DATA]
      recv_buf == Miso(buf_size)
  IN IF ~sendAlloc \/ ~recvAlloc
       THEN [ret |-> SFUD_ERR_WRITE, data |-> <<>>, bus |-> <<>>,
             cs |-> flash_cs,
             leak |-> (IF sendAlloc THEN 1 ELSE 0) + (IF recvAlloc THEN 1 ELSE 0)]
     ELSE IF ~xferOk
       THEN [ret |-> SFUD_ERR_TIMEOUT, data |-> <<>>,
             bus |-> <<HAL_GPIO_WritePin("RESET"),
                       HAL_SPI_TransmitReceive(send_buf, FALSE)>>,
             cs |-> "RESET", leak |-> 0]
     ELSE [ret |-> SFUD_SUCCESS,
           data |-> SubSeq(recv_buf, ws + 1, ws + rs),
           bus |-> <<HAL_GPIO_WritePin("RESET"),
                     HAL_SPI_TransmitReceive(send_buf, TRUE),
                     HAL_GPIO_WritePin("SET")>>,
           cs |-> "SET", leak |-> 0]

\* static sfud_err spi_write_read(spi, write_buf, write_size, read_buf, read_size)
spi_write_read(wb, rs, sendAlloc, recvAlloc, xferOk) ==
  /\ pc = "driver"
  /\ locks > 0
  /\ pc' = "return"
  /\ LET r == IF Len(wb) + rs = 0
                THEN [ret |-> SFUD_ERR_WRITE, data |-> <<>>, bus |-> <<>>,
                      cs |-> flash_cs, leak |-> 0]
                ELSE spi_write_read_body(wb, rs, sendAlloc, recvAlloc, xferOk)
     IN /\ allocated + r.leak <= MaxLeak
        /\ call' = MkCall("spi_write_read", wb, rs, 0, NoFormat, mode, primask,
                          r.ret, "none", r.data)
        /\ bus' = r.bus
        /\ flash_cs' = r.cs
        /\ allocated' = allocated + r.leak
  /\ UNCHANGED <<mode, primask, locks, prev, image, init_result, hand, machine, steps>>

\* ------------------------------------------- the memory-mapped mode controller

\* OSPI_MemoryMappedTypeDef sMemMappedCfg as qspi_entry_memory_mapped_mode fills
\* it: the inactivity timeout counter is disabled.
sMemMappedCfg ==
  [TimeOutActivation |-> "HAL_OSPI_TIMEOUT_COUNTER_DISABLE", TimeOutPeriod |-> 0]

\* Mutant of EntryEffect: the result of the direct-mapped programming is not
\* looked at.
EntryEffect_mapping_unchecked(fmt, cmdOk, mmOk) ==
  LET cmd == FormatCmd(fmt, 0, 0)
  IN IF ~cmdOk
       THEN [ret |-> SFUD_ERR_READ, mode |-> mode,
             bus |-> <<HAL_OSPI_Command(cmd, FALSE)>>]
       ELSE [ret |-> SFUD_SUCCESS,
             mode |-> ModeAfterMemoryMapped(mode, mmOk),
             bus |-> <<HAL_OSPI_Command(cmd, TRUE),
                       HAL_OSPI_MemoryMapped(sMemMappedCfg, mmOk)>>]

\* Mutant of EntryEffect: no early return after a failed configuration command.
EntryEffect_no_early_return(fmt, cmdOk, mmOk) ==
  LET cmd == FormatCmd(fmt, 0, 0)
  IN [ret |-> IF mmOk THEN SFUD_SUCCESS ELSE SFUD_ERR_READ,
      mode |-> ModeAfterMemoryMapped(mode, mmOk),
      bus |-> <<HAL_OSPI_Command(cmd, cmdOk),
                HAL_OSPI_MemoryMapped(sMemMappedCfg, mmOk)>>]

\* qspi_entry_memory_mapped_mode: the configuration command, then the
\* direct-mapped programming.
EntryEffect(fmt, cmdOk, mmOk) ==
  LET cmd == FormatCmd(fmt, 0, 0)
  IN IF ~cmdOk
       THEN [ret |-> SFUD_ERR_READ, mode |-> mode,
             bus |-> <<HAL_OSPI_Command(cmd, FALSE)>>]
       ELSE [ret |-> IF mmOk THEN SFUD_SUCCESS ELSE SFUD_ERR_READ,
             mode |-> ModeAfterMemoryMapped(mode, mmOk),
             bus |-> <<HAL_OSPI_Command(cmd, TRUE),
                       HAL_OSPI_MemoryMapped(sMemMappedCfg, mmOk)>>]

\* sfud_err qspi_entry_memory_mapped_mode(flash), called by the driver
qspi_entry_memory_mapped_mode(fmt, cmdOk, mmOk) ==
  /\ pc = "driver"
  /\ locks > 0
  /\ pc' = "return"
  /\ LET r == EntryEffect(fmt, cmdOk, mmOk)
     IN /\ call' = MkCall("qspi_entry_memory_mapped_mode", <<>>, 0, 0, fmt, mode,
                          primask, r.ret, "none", <<>>)
        /\ bus' = r.bus
        /\ mode' = r.mode
  /\ UNCHANGED <<primask, locks, flash_cs, allocated, prev, image, init_result,
                 hand, machine, steps>>

\* sfud_err qspi_exit_memory_mapped_mode(flash)
qspi_exit_memory_mapped_mode(abortOk, restored) ==
  /\ pc = "driver"
  /\ locks > 0
  /\ pc' = "return"
  /\ call' = MkCall("qspi_exit_memory_mapped_mode", <<>>, 0, 0, NoFormat, mode,
                    primask, SFUD_SUCCESS, "none", <<>>)
  /\ bus' = <<HAL_OSPI_Abort(abortOk)>>
  /\ mode' = ModeAfterAbort(mode, abortOk, restored)
  /\ UNCHANGED <<primask, locks, flash_cs, allocated, prev, image, init_result,
                 hand, machine, steps>>

\* ------------------------------------------------------ the critical section

\* The driver takes the value a transport call returned and goes on.
driver_return ==
  /\ pc = "return"
  /\ pc' = "driver"
  /\ prev' = IF call.op \in {"qspi_entry_memory_mapped_mode",
                              "qspi_exit_memory_mapped_mode"}
               THEN [op |-> call.op, mode |-> call.mode]
               ELSE [op |-> "none", mode |-> CommandMode]
  /\ call' = NoCall
  /\ bus' = <<>>
  /\ UNCHANGED <<mode, primask, locks, flash_cs, allocated, image, init_result,
                 hand, machine, steps>>

\* static void spi_lock(spi): __disable_irq()
spi_lock ==
  /\ pc = "driver"
  /\ locks < MaxNest
  /\ primask' = TRUE
  /\ locks' = locks + 1
  /\ UNCHANGED <<pc, mode, flash_cs, allocated, call, prev, bus, image, init_result,
                 hand, machine, steps>>

\* Mutant of spi_unlock: interrupt delivery is enabled again only when the
\* outermost lock is released.
spi_unlock_nested ==
  /\ pc = "driver"
  /\ locks > 0
  /\ primask' = (locks > 1)
  /\ locks' = locks - 1
  /\ UNCHANGED <<pc, mode, flash_cs, allocated, call, prev, bus, image, init_result,
                 hand, machine, steps>>

\* static void spi_unlock(spi): __enable_irq()
spi_unlock ==
  /\ pc = "driver"
  /\ locks > 0
  /\ primask' = FALSE
  /\ locks' = locks - 1
  /\ UNCHANGED <<pc, mode, flash_cs, allocated, call, prev, bus, image, init_result,
                 hand, machine, steps>>

\* ------------------------------------------------------------ the boot path

\* The word the CPU loads from an address of the mapped window.
Word(a) == image[a - OCTOSPI1_BASE]

\* Mutant of EntryApp_args: the two header words are taken from each other's
\* offset.
EntryApp_args_swapped ==
  [stack_top |-> Word(OCTOSPI1_BASE + WordSize),
   vector_addr |-> OCTOSPI1_BASE,
   entry_addr |-> Word(OCTOSPI1_BASE)]

\* EntryApp: the three arguments it passes to JumpToApp.
EntryApp_args ==
  [stack_top |-> Word(OCTOSPI1_BASE),
   vector_addr |-> OCTOSPI1_BASE,
   entry_addr |-> Word(OCTOSPI1_BASE + WordSize)]

\* One executed step of the hand-off, with the interrupt state it ran in.
Step(name) == [step |-> name, irq_off |-> primask]

\* main: sfud_init() returns (a failure is logged only) and
\* sfud_qspi_fast_read_enable() has run; main goes on to EntryApp().  The
\* driver's call history ends here.
sfud_init_return(r) ==
  /\ pc = "driver"
  /\ locks = 0
  /\ init_result' = r
  /\ pc' = "EntryApp"
  /\ prev' = [op |-> "none", mode |-> CommandMode]
  /\ UNCHANGED <<mode, primask, locks, flash_cs, allocated, call, bus, image,
                 hand, machine, steps>>

\* EntryApp: mode entry on the main flash (its result is not looked at), then
\* the header words are read and JumpToApp is entered.
EntryApp(fmt, cmdOk, mmOk) ==
  /\ pc = "EntryApp"
  /\ LET r == EntryEffect(fmt, cmdOk, mmOk)
     IN /\ call' = MkCall("qspi_entry_memory_mapped_mode", <<>>, 0, 0, fmt, mode,
                          primask, r.ret, "none", <<>>)
        /\ bus' = r.bus
        /\ mode' = r.mode
        /\ hand' = [hand EXCEPT !.entry_ret = r.ret,
                                !.stack_top = EntryApp_args.stack_top,
                                !.vector_addr = EntryApp_args.vector_addr,
                                !.entry_addr = EntryApp_args.entry_addr]
  /\ pc' = "persist"
  /\ UNCHANGED <<primask, locks, flash_cs, allocated, prev, image, init_result,
                 machine, steps>>

\* Mutant of JumpToApp_persist: after the three values are stored the caches
\* are disabled at once, the memory protection unit is left as it is.
JumpToApp_persist_no_mpu ==
  /\ pc = "persist"
  /\ hand' = [hand EXCEPT !.global_stack_top = hand.stack_top,
                          !.global_vector_addr = hand.vector_addr,
                          !.global_entry_addr = hand.entry_addr]
  /\ steps' = Append(steps, Step("persist"))
  /\ pc' = "SCB_DisableDCache"
  /\ UNCHANGED <<mode, primask, locks, flash_cs, allocated, call, prev, bus, image,
                 init_result, machine>>

\* JumpToApp: global_stack_top, global_vector_addr, global_entry_addr
JumpToApp_persist ==
  /\ pc = "persist"
  /\ hand' = [hand EXCEPT !.global_stack_top = hand.stack_top,
                          !.global_vector_addr = hand.vector_addr,
                          !.global_entry_addr = hand.entry_addr]
  /\ steps' = Append(steps, Step("persist"))
  /\ pc' = "HAL_MPU_Disable"
  /\ UNCHANGED <<mode, primask, locks, flash_cs, allocated, call, prev, bus, image,
                 init_result, machine>>

JumpToApp_HAL_MPU_Disable ==
  /\ pc = "HAL_MPU_Disable"
  /\ machine' = [machine EXCEPT !.mpu = FALSE]
  /\ steps' = Append(steps, Step("HAL_MPU_Disable"))
  /\ pc' = "SCB_DisableDCache"
  /\ UNCHANGED <<mode, primask, locks, flash_cs, allocated, call, prev, bus, image,
                 init_result, hand>>

JumpToApp_SCB_DisableDCache ==
  /\ pc = "SCB_DisableDCache"
  /\ machine' = [machine EXCEPT !.dcache = FALSE]
  /\ steps' = Append(steps, Step("SCB_DisableDCache"))
  /\ pc' = "SCB_DisableICache"
  /\ UNCHANGED <<mode, primask, locks, flash_cs, allocated, call, prev, bus, image,
                 init_result, hand>>

JumpToApp_SCB_DisableICache ==
  /\ pc = "SCB_DisableICache"
  /\ machine' = [machine EXCEPT !.icache = FALSE]
  /\ steps' = Append(steps, Step("SCB_DisableICache"))
  /\ pc' = "disable_irq"
  /\ UNCHANGED <<mode, primask, locks, flash_cs, allocated, call, prev, bus, image,
                 init_result, hand>>

\* __disable_irq()
JumpToApp_disable_irq ==
  /\ pc = "disable_irq"
  /\ primask' = TRUE
  /\ steps' = Append(steps, Step("disable_irq"))
  /\ pc' = "SysTick"
  /\ UNCHANGED <<mode, locks, flash_cs, allocated, call, prev, bus, image,
                 init_result, hand, machine>>

\* SysTick->CTRL = 0; SysTick->LOAD = 0; SysTick->VAL = 0
JumpToApp_SysTick ==
  /\ pc = "SysTick"
  /\ machine' = [machine EXCEPT !.SysTick = [CTRL |-> 0, LOAD |-> 0, VAL |-> 0]]
  /\ steps' = Append(steps, Step("SysTick"))
  /\ hand' = [hand EXCEPT !.i = 0]
  /\ pc' = "NVIC"
  /\ UNCHANGED <<mode, primask, locks, flash_cs, allocated, call, prev, bus, image,
                 init_result>>

\* Mutant of JumpToApp_NVIC: the loop masks the lines (ICER) and does not clear
\* their pending state (ICPR).
JumpToApp_NVIC_mask_only ==
  /\ pc = "NVIC"
  /\ hand.i < NvicBanks
  /\ machine' = [machine EXCEPT !.nvic_enabled = @ \ {hand.i}]
  /\ hand' = [hand EXCEPT !.i = @ + 1]
  /\ steps' = IF hand.i = 0 THEN Append(steps, Step("NVIC")) ELSE steps
  /\ UNCHANGED <<pc, mode, primask, locks, flash_cs, allocated, call, prev, bus, image,
                 init_result>>

\* One turn of the loop: NVIC->ICER[i] = 0xFFFFFFFF; NVIC->ICPR[i] = 0xFFFFFFFF
JumpToApp_NVIC ==
  /\ pc = "NVIC"
  /\ hand.i < NvicBanks
  /\ machine' = [machine EXCEPT !.nvic_enabled = @ \ {hand.i},
                                !.nvic_pending = @ \ {hand.i}]
  /\ hand' = [hand EXCEPT !.i = @ + 1]
  /\ steps' = IF hand.i = 0 THEN Append(steps, Step("NVIC")) ELSE steps
  /\ UNCHANGED <<pc, mode, primask, locks, flash_cs, allocated, call, prev, bus, image,
                 init_result>>

\* The loop ends; __enable_irq()
JumpToApp_enable_irq ==
  /\ pc = "NVIC"
  /\ hand.i >= NvicBanks
  /\ primask' = FALSE
  /\ steps' = Append(steps, Step("enable_irq"))
  /\ pc' = "set_MSP"
  /\ UNCHANGED <<mode, locks, flash_cs, allocated, call, prev, bus, image,
                 init_result, hand, machine>>

\* __set_MSP(global_stack_top)
JumpToApp_set_MSP ==
  /\ pc = "set_MSP"
  /\ machine' = [machine EXCEPT !.MSP = hand.global_stack_top]
  /\ steps' = Append(steps, Step("set_MSP"))
  /\ pc' = "set_CONTROL"
  /\ UNCHANGED <<mode, primask, locks, flash_cs, allocated, call, prev, bus, image,
                 init_result, hand>>

\* __set_CONTROL(0)
JumpToApp_set_CONTROL ==
  /\ pc = "set_CONTROL"
  /\ machine' = [machine EXCEPT !.CONTROL = 0]
  /\ steps' = Append(steps, Step("set_CONTROL"))
  /\ pc' = "set_VTOR"
  /\ UNCHANGED <<mode, primask, locks, flash_cs, allocated, call, prev, bus, image,
                 init_result, hand>>

\* SCB->VTOR = global_vector_addr
JumpToApp_set_VTOR ==
  /\ pc = "set_VTOR"
  /\ machine' = [machine EXCEPT !.VTOR = hand.global_vector_addr]
  /\ steps' = Append(steps, Step("set_VTOR"))
  /\ pc' = "jump"
  /\ UNCHANGED <<mode, primask, locks, flash_cs, allocated, call, prev, bus, image,
                 init_result, hand>>

\* ((void (*)(void)) (global_entry_addr))(): control leaves the bootloader
JumpToApp_jump ==
  /\ pc = "jump"
  /\ machine' = [machine EXCEPT !.entered = hand.global_entry_addr,
                                !.transfers = @ + 1]
  /\ steps' = Append(steps, Step("jump"))
  /\ pc' = "app"
  /\ UNCHANGED <<mode, primask, locks, flash_cs, allocated, call, prev, bus, image,
                 init_result, hand>>

\* -------------------------------------------------------- the specification

WriteBufs == {WriteBuf(p, n) : p \in Patterns, n \in 0..MaxWrite}
ReadSizes == 0..MaxRead
ReadAddrs == {0, 4}
InitResults == {SFUD_SUCCESS, "SFUD_ERR_NOT_FOUND"}

\* The outcomes of a primitive that runs only if the one before it succeeded.
After(ok) == IF ok THEN BOOLEAN ELSE {TRUE}

Driver ==
  \/ spi_lock
  \/ spi_unlock
  \/ driver_return
  \/ \E wb \in WriteBufs, rs \in ReadSizes, cmdOk \in BOOLEAN :
       \E dataOk \in After(cmdOk) : qspi_write_read(wb, rs, cmdOk, dataOk)
  \/ \E addr \in ReadAddrs, fmt \in ReadFormats, rs \in ReadSizes,
        cmdOk \in BOOLEAN :
       \E rcvOk \in After(cmdOk) : qspi_read(addr, fmt, rs, cmdOk, rcvOk)
  \/ \E wb \in WriteBufs, rs \in ReadSizes, sendAlloc \in BOOLEAN,
        recvAlloc \in BOOLEAN :
       \E xferOk \in After(sendAlloc /\ recvAlloc) :
         spi_write_read(wb, rs, sendAlloc, recvAlloc, xferOk)
  \/ \E fmt \in ReadFormats, cmdOk \in BOOLEAN :
       \E mmOk \in After(cmdOk) : qspi_entry_memory_mapped_mode(fmt, cmdOk, mmOk)
  \/ \E abortOk \in BOOLEAN :
       \E restored \in (IF abortOk THEN {TRUE} ELSE BOOLEAN) :
         qspi_exit_memory_mapped_mode(abortOk, restored)

Boot ==
  \/ \E r \in InitResults : sfud_init_return(r)
  \/ \E fmt \in ReadFormats, cmdOk \in BOOLEAN :
       \E mmOk \in After(cmdOk) : EntryApp(fmt, cmdOk, mmOk)
  \/ JumpToApp_persist
  \/ JumpToApp_HAL_MPU_Disable
  \/ JumpToApp_SCB_DisableDCache
  \/ JumpToApp_SCB_DisableICache
  \/ JumpToApp_disable_irq
  \/ JumpToApp_SysTick
  \/ JumpToApp_NVIC
  \/ JumpToApp_enable_irq
  \/ JumpToApp_set_MSP
  \/ JumpToApp_set_CONTROL
  \/ JumpToApp_set_VTOR
  \/ JumpToApp_jump

Next == Driver \/ Boot

Spec == Init /\ [][Next]_vars

\* ------------------------------------------------------------------ claims

Returned(op) == pc = "return" /\ call.op = op

\* The bus primitives (not the pin writes) in a log.
Prims(log) == {k \in 1..Len(log) : log[k].prim \in BusPrims}

\* The hand-off has started: JumpToApp has been entered.
HandoffStarted == pc \notin {"driver", "return", "EntryApp"}

\* C1: while the quad controller is memory-mapped, every qspi_write_read
\* (whatever the two sizes) returns SFUD_ERR_WRITE and issues nothing: no pin
\* write, no command, no transmit, no receive.
C1_ModeExclusivity ==
  (Returned("qspi_write_read") /\ call.mode = MemoryMappedMode)
    => (call.ret = SFUD_ERR_WRITE /\ bus = <<>> /\ call.inner = "none")

C1_Witness ==
  /\ Returned("qspi_write_read")
  /\ call.mode = MemoryMappedMode
  /\ Len(call.write_buf) = 4
  /\ call.read_size > 0
  /\ call.ret = SFUD_ERR_WRITE
  /\ bus = <<>>

\* C2: the hand-off starts only if sfud_init and the mode entry of EntryApp
\* both succeeded (and so the controller is memory-mapped); after a failure
\* JumpToApp is never entered.
C2_HandoffOnlyAfterEntry ==
  HandoffStarted
    => (init_result = SFUD_SUCCESS /\ hand.entry_ret = SFUD_SUCCESS
        /\ mode = MemoryMappedMode)

\* The chip-select pin writes of a log leave the line deasserted.
CsReleased(log) ==
  \A k \in 1..Len(log) :
    log[k].prim = "HAL_GPIO_WritePin:RESET"
      => \E j \in (k + 1)..Len(log) : log[j].prim = "HAL_GPIO_WritePin:SET"

\* C3: when spi_write_read or qspi_write_read returns, on whatever path, the
\* chip-select line is deasserted.
C3_ChipSelectDeasserted ==
  /\ Returned("spi_write_read") => (flash_cs = "SET" /\ CsReleased(bus))
  /\ Returned("qspi_write_read") => CsReleased(bus)

\* C4: from __disable_irq() on, interrupt delivery is disabled at every later
\* step of the hand-off: when MSP is written, when VTOR is written and when
\* control is transferred.
C4_IrqStaysDisabled ==
  \A k \in 1..Len(steps) :
    \A j \in k..Len(steps) :
      (steps[k].step = "disable_irq"
       /\ steps[j].step \in {"SysTick", "NVIC", "set_MSP", "set_CONTROL",
                              "set_VTOR", "jump"})
        => steps[j].irq_off

\* C5: qspi_write_read returns SFUD_SUCCESS exactly when the transaction it ran
\* through qspi_send_then_recv succeeded; a rejected frame, a failed command
\* phase and a failed data phase all come back as an error code.
C5_ErrorsSurfaced ==
  (Returned("qspi_write_read") /\ call.inner # "none")
    => /\ (call.inner # SFUD_SUCCESS => call.ret \in {SFUD_ERR_READ, SFUD_ERR_WRITE})
       /\ (call.ret = SFUD_SUCCESS
             => (call.inner = SFUD_SUCCESS /\ \A k \in 1..Len(bus) : bus[k].ok))

\* C6: the hand-off reads the header words at offsets 0 and 4 of the mapped
\* base, programs MSP with word 0 and VTOR with the mapped base, transfers
\* control to word 1, does so once, and nothing of the bootloader runs after it.
C6_HandoffDeterminism ==
  /\ machine.transfers <= 1
  /\ HandoffStarted
       => (hand.stack_top = image[0] /\ hand.entry_addr = image[WordSize]
           /\ hand.vector_addr = OCTOSPI1_BASE)
  /\ pc \in {"set_CONTROL", "set_VTOR", "jump", "app"} => machine.MSP = image[0]
  /\ pc \in {"jump", "app"} => machine.VTOR = OCTOSPI1_BASE
  /\ pc = "app"
       => (machine.entered = image[WordSize] /\ machine.transfers = 1
           /\ ~ ENABLED Next)
  /\ pc # "app" => (machine.transfers = 0 /\ machine.entered = -1)

C6_Witness ==
  /\ pc = "app"
  /\ image[0] = 43690
  /\ machine.MSP = 43690
  /\ machine.VTOR = OCTOSPI1_BASE
  /\ machine.entered = 48059
  /\ machine.transfers = 1

\* C7: the qspi_write_read (write_size > 0) that follows a
\* qspi_exit_memory_mapped_mode called in memory-mapped mode is not rejected,
\* returns SFUD_SUCCESS and performs exactly one bus transaction: one command
\* phase, with its data phase when the frame has one.
C7_ModeRecovery ==
  (Returned("qspi_write_read") /\ Len(call.write_buf) > 0
   /\ prev.op = "qspi_exit_memory_mapped_mode" /\ prev.mode = MemoryMappedMode)
    => /\ call.ret = SFUD_SUCCESS
       /\ Count(bus, "HAL_OSPI_Command") = 1
       /\ Count(bus, "HAL_OSPI_Transmit") + Count(bus, "HAL_OSPI_Receive") <= 1

\* C8: on both transports a call with write_size = 0 and read_size = 0
\* returns SFUD_ERR_WRITE and issues nothing on the bus.
C8_EmptyCallInvalid ==
  ((Returned("qspi_write_read") \/ Returned("spi_write_read"))
   /\ Len(call.write_buf) = 0 /\ call.read_size = 0)
    => (call.ret = SFUD_ERR_WRITE /\ bus = <<>>)

\* A ReadCommandFormat with a line width outside {0, 1, 2, 4, 8}.
InvalidFormat(fmt) ==
  \/ fmt.instruction_lines \notin ValidLines
  \/ fmt.address_lines \notin ValidLines
  \/ fmt.data_lines \notin ValidLines

\* C9: for each phase the five valid line widths map to five distinct line
\* modes, and a qspi_read (in command mode) or a mode entry given any other
\* width fails and issues no bus command.
C9_LineWidthMapping ==
  /\ \A a \in ValidLines, b \in ValidLines :
       a # b => /\ InstructionMode(a) # InstructionMode(b)
                /\ AddressMode(a) # AddressMode(b)
                /\ DataMode(a) # DataMode(b)
  /\ (((Returned("qspi_read") /\ call.mode = CommandMode)
        \/ call.op = "qspi_entry_memory_mapped_mode")
       /\ InvalidFormat(call.fmt))
        => (call.ret # SFUD_SUCCESS /\ Prims(bus) = {})

\* C10: qspi_send_then_recv given a send stream of 2 or 3 bytes returns
\* SFUD_ERR_READ, issues no command, transmit or receive, and decodes no address
\* from the stream.
C10_FrameRejection ==
  (Returned("qspi_write_read") /\ call.mode = CommandMode
   /\ Len(call.write_buf) \in {2, 3})
    => LET h == FrameHeader(call.write_buf, Len(call.write_buf))
       IN /\ call.inner = SFUD_ERR_READ
          /\ Prims(bus) = {}
          /\ ~h.ok
          /\ h.cmd.Address = 0
          /\ h.cmd.AddressMode = "NONE"

C10_Witness ==
  /\ Returned("qspi_write_read")
  /\ call.mode = CommandMode
  /\ Len(call.write_buf) = 3
  /\ call.read_size > 0
  /\ call.inner = SFUD_ERR_READ
  /\ bus = <<>>

\* The first primitive of a quad write/read is a command phase: its frame.
FrameIssued == Len(bus) >= 1 /\ bus[1].prim = "HAL_OSPI_Command"

\* C11: for every send stream accepted by qspi_send_then_recv, byte 0 is the
\* instruction, issued on 1 line; a stream of 4 bytes or more has a 24-bit address
\* phase on 1 line with address = (b1 << 16) | (b2 << 8) | b3 and 4 header bytes
\* consumed (the payload of a send is the bytes from the fifth on); a stream of 1
\* byte has no address phase and 1 header byte consumed (no payload).
C11_FrameDecoding ==
  (Returned("qspi_write_read") /\ call.mode = CommandMode
   /\ (Len(call.write_buf) = 1 \/ Len(call.write_buf) >= 4))
    => LET wb == call.write_buf
           L == Len(wb)
           consumed == IF L >= 4 THEN 4 ELSE 1
       IN /\ FrameIssued
          /\ bus[1].cmd.Instruction = wb[1]
          /\ bus[1].cmd.InstructionMode = "1_LINE"
          /\ L >= 4 => /\ bus[1].cmd.AddressMode = "1_LINE"
                       /\ bus[1].cmd.AddressSize = "24_BITS"
                       /\ bus[1].cmd.Address = wb[2] * 65536 + wb[3] * 256 + wb[4]
          /\ L = 1 => /\ bus[1].cmd.AddressMode = "NONE"
                      /\ bus[1].cmd.Address = 0
          /\ call.read_size = 0
               => /\ bus[1].cmd.NbData = L - consumed
                  /\ \A k \in 2..Len(bus) :
                       bus[k].prim = "HAL_OSPI_Transmit"
                         => bus[k].data = SubSeq(wb, consumed + 1, L)
          /\ call.read_size > 0 => bus[1].cmd.DummyCycles = 8 * (L - consumed)

C11_Witness ==
  /\ Returned("qspi_write_read")
  /\ call.mode = CommandMode
  /\ call.write_buf = <<11, 28, 45, 62, 79>>
  /\ call.read_size = 0
  /\ FrameIssued
  /\ bus[1].cmd.Address = 1846590
  /\ Len(bus) = 2
  /\ bus[2].data = <<79>>

\* C12: a send-then-receive transaction with send_length L and receive length N
\* issues a frame whose data length is N and whose dummy-cycle count is
\* 8 * (L - header bytes consumed): 0 when L is 1 or 4, 8 * (L - 4) when L > 4;
\* when the command phase succeeds exactly one receive follows it, so
\* write_size = 4, read_size = N is one transaction of N received bytes with
\* no dummy cycle.
C12_ReceiveFraming ==
  (Returned("qspi_write_read") /\ call.mode = CommandMode
   /\ (Len(call.write_buf) = 1 \/ Len(call.write_buf) >= 4)
   /\ call.read_size > 0)
    => LET L == Len(call.write_buf)
       IN /\ FrameIssued
          /\ bus[1].cmd.NbData = call.read_size
          /\ bus[1].cmd.DataMode = "1_LINE"
          /\ bus[1].cmd.DummyCycles =
               (IF L = 1 \/ L = 4 THEN 0 ELSE 8 * (L - 4))
          /\ Count(bus, "HAL_OSPI_Command") = 1
          /\ Count(bus, "HAL_OSPI_Transmit") = 0
          /\ Count(bus, "HAL_OSPI_Receive") = (IF bus[1].ok THEN 1 ELSE 0)
          /\ bus[1].ok => bus[Len(bus)].prim = "HAL_OSPI_Receive"

C12_Witness ==
  /\ Returned("qspi_write_read")
  /\ call.mode = CommandMode
  /\ Len(call.write_buf) = 5
  /\ call.read_size = 2
  /\ FrameIssued
  /\ bus[1].cmd.DummyCycles = 8
  /\ bus[1].cmd.NbData = 2
  /\ Len(bus) = 2
  /\ bus[2].prim = "HAL_OSPI_Receive"
  /\ bus[2].ok

\* C13: a spi_write_read (write_size + read_size > 0) in which the allocation
\* of either scratch buffer fails returns SFUD_ERR_WRITE, and during that call
\* the chip select is never asserted and no bus transfer is made: the call
\* issues nothing and leaves the chip-select pin as it found it.
C13_AllocFailureBeforeBus ==
  [][ \A sendAlloc \in BOOLEAN, recvAlloc \in BOOLEAN :
        (/\ ~sendAlloc \/ ~recvAlloc
         /\ pc = "driver"
         /\ pc' = "return"
         /\ call'.op = "spi_write_read"
         /\ Len(call'.write_buf) + call'.read_size > 0
         /\ spi_write_read(call'.write_buf, call'.read_size,
                           sendAlloc, recvAlloc, TRUE))
          => /\ call'.ret = SFUD_ERR_WRITE
             /\ bus' = <<>>
             /\ flash_cs' = flash_cs ]_vars

\* A call of spi_write_read has returned the allocation failure: with
\* write_size + read_size > 0 no other path returns SFUD_ERR_WRITE.
C13_Witness ==
  /\ Returned("spi_write_read")
  /\ Len(call.write_buf) = 4
  /\ call.read_size = 2
  /\ call.ret = SFUD_ERR_WRITE
  /\ allocated = 1
  /\ bus = <<>>
  /\ flash_cs = "SET"

\* The byte the CPU reads at an offset of the mapped window: byte (o mod 4) of
\* the little-endian word that holds it.
WindowByte(o) ==
  LET w == image[WordSize * (o \div WordSize)]
  IN IF o % WordSize = 0 THEN w % 256
     ELSE IF o % WordSize = 1 THEN (w \div 256) % 256
     ELSE IF o % WordSize = 2 THEN (w \div 65536) % 256
     ELSE (w \div 16777216) % 256

\* C14: in memory-mapped mode qspi_read(addr, n) returns SFUD_SUCCESS with the n
\* bytes at mapped base + addr and issues no bus transaction; in command mode it
\* issues exactly one command phase, carrying the caller's instruction, dummy
\* cycles, address and NbData = n, followed by at most one receive, and returns
\* SFUD_ERR_READ when either phase fails.
C14_FastRead ==
  /\ (Returned("qspi_read") /\ call.mode = MemoryMappedMode)
       => /\ call.ret = SFUD_SUCCESS
          /\ bus = <<>>
          /\ Len(call.data) = call.read_size
          /\ \A j \in 1..call.read_size :
               call.data[j] = WindowByte(call.addr + j - 1)
  /\ (Returned("qspi_read") /\ call.mode = CommandMode)
       => /\ FrameIssued
          /\ bus[1].cmd.Instruction = call.fmt.instruction
          /\ bus[1].cmd.DummyCycles = call.fmt.dummy_cycles
          /\ bus[1].cmd.Address = call.addr
          /\ bus[1].cmd.NbData = call.read_size
          /\ Count(bus, "HAL_OSPI_Command") = 1
          /\ Count(bus, "HAL_OSPI_Receive") <= 1
          /\ \A k \in 2..Len(bus) : k = 2 /\ bus[k].prim = "HAL_OSPI_Receive"
          /\ ~bus[1].ok => Len(bus) = 1
          /\ (\E k \in 1..Len(bus) : ~bus[k].ok) => call.ret = SFUD_ERR_READ

C14_Witness ==
  /\ Returned("qspi_read")
  /\ call.mode = MemoryMappedMode
  /\ call.addr = 4
  /\ call.read_size = 2
  /\ image[4] = 48059
  /\ call.data = <<187, 187>>
  /\ call.ret = SFUD_SUCCESS
  /\ bus = <<>>

\* Some primitive of the last call reported a failure.
SomeFailed(log) == \E k \in 1..Len(log) : ~log[k].ok

\* C15: when a step of qspi_entry_memory_mapped_mode (called in command mode,
\* by the driver or by EntryApp) fails, the call returns SFUD_ERR_READ and the
\* controller is still in command mode afterwards; after a failed configuration
\* command the direct-mapped programming is not attempted.
C15_EntryFailure ==
  (call.op = "qspi_entry_memory_mapped_mode" /\ call.mode = CommandMode
   /\ SomeFailed(bus))
    => /\ call.ret = SFUD_ERR_READ
       /\ mode = CommandMode
       /\ FrameIssued
       /\ ~bus[1].ok => (Len(bus) = 1 /\ Count(bus, "HAL_OSPI_MemoryMapped") = 0)
       /\ bus[1].ok => (Len(bus) = 2 /\ bus[2].prim = "HAL_OSPI_MemoryMapped")

C15_Witness ==
  /\ Returned("qspi_entry_memory_mapped_mode")
  /\ call.mode = CommandMode
  /\ Len(bus) = 2
  /\ bus[1].ok
  /\ bus[2].prim = "HAL_OSPI_MemoryMapped"
  /\ ~bus[2].ok
  /\ call.ret = SFUD_ERR_READ
  /\ mode = CommandMode

\* C16: whatever the mode it is called in and whatever HAL_OSPI_Abort reports,
\* when qspi_exit_memory_mapped_mode returns it returns SFUD_SUCCESS and the
\* controller is in command mode.
C16_ModeExit ==
  Returned("qspi_exit_memory_mapped_mode")
    => (call.ret = SFUD_SUCCESS /\ mode = CommandMode)

\* C17: every bus activity of a transaction (a pin write or a bus primitive of
\* qspi_write_read, spi_write_read, qspi_read, mode entry or mode exit, the mode
\* entry made by EntryApp included) runs with interrupt delivery disabled.
C17_CriticalSection ==
  \A k \in 1..Len(bus) : bus[k].irq_off

\* The position of a hand-off step in the order of the specification (the two
\* cache disables are one step); 0 for a step that is not one of the ten.
StepRank(name) ==
  CASE name = "persist" -> 1
    [] name = "HAL_MPU_Disable" -> 2
    [] name \in {"SCB_DisableDCache", "SCB_DisableICache"} -> 3
    [] name = "disable_irq" -> 4
    [] name = "SysTick" -> 5
    [] name = "NVIC" -> 6
    [] name = "set_MSP" -> 7
    [] name = "set_CONTROL" -> 8
    [] name = "set_VTOR" -> 9
    [] name = "jump" -> 10
    [] OTHER -> 0

\* How many times a step has been executed.
Times(name) == Cardinality({k \in 1..Len(steps) : steps[k].step = name})

\* C18: in every run of the hand-off the ten steps occur in the order persist,
\* disable memory protection, disable caches, disable interrupt delivery, stop
\* the system tick, mask and clear the interrupt controller, program MSP,
\* CONTROL = 0, program VTOR, transfer control; none is executed twice and when
\* control is transferred each has been executed; memory protection is off
\* before a cache is switched off and MSP and VTOR hold the persisted values
\* before the transfer.
C18_HandoffOrdering ==
  /\ \A j \in 1..Len(steps), k \in 1..Len(steps) :
       (j < k /\ StepRank(steps[j].step) > 0 /\ StepRank(steps[k].step) > 0)
         => /\ StepRank(steps[j].step) <= StepRank(steps[k].step)
            /\ steps[j].step # steps[k].step
  /\ pc = "app"
       => \A r \in 1..10 : \E k \in 1..Len(steps) : StepRank(steps[k].step) = r
  /\ pc = "app"
       => /\ Times("SCB_DisableDCache") = 1
          /\ Times("SCB_DisableICache") = 1
  /\ (~machine.dcache \/ ~machine.icache) => ~machine.mpu
  /\ (Times("SCB_DisableDCache") > 0 \/ Times("SCB_DisableICache") > 0)
       => Times("HAL_MPU_Disable") = 1
  /\ Times("jump") > 0
       => /\ Times("set_MSP") = 1
          /\ Times("set_VTOR") = 1
          /\ machine.MSP = hand.global_stack_top
          /\ machine.VTOR = hand.global_vector_addr
          /\ machine.CONTROL = 0

C18_Witness ==
  /\ pc = "app"
  /\ Len(steps) = 12
  /\ steps[1].step = "persist"
  /\ steps[2].step = "HAL_MPU_Disable"
  /\ steps[3].step = "SCB_DisableDCache"
  /\ steps[12].step = "jump"
  /\ ~machine.mpu
  /\ ~machine.dcache
  /\ ~machine.icache

\* The NVIC loop of JumpToApp has ended.
NvicLoopDone == pc \in {"set_MSP", "set_CONTROL", "set_VTOR", "jump", "app"}

\* C19: when control is transferred to the application the three SysTick
\* registers (CTRL, LOAD, VAL) are zero and in every NVIC register bank 0..7 the
\* lines are masked and their pending state cleared; from the end of the loop
\* to the transfer no bank has a line enabled or pending again and the timer
\* stays stopped.
C19_CleanMachineState ==
  /\ NvicLoopDone
       => /\ machine.SysTick = [CTRL |-> 0, LOAD |-> 0, VAL |-> 0]
          /\ \A b \in 0..(NvicBanks - 1) :
               b \notin machine.nvic_enabled /\ b \notin machine.nvic_pending
          /\ hand.i = NvicBanks
  /\ Times("jump") > 0 => NvicLoopDone

C19_Witness ==
  /\ pc = "app"
  /\ machine.transfers = 1
  /\ machine.SysTick.CTRL = 0
  /\ machine.SysTick.LOAD = 0
  /\ machine.SysTick.VAL = 0
  /\ machine.nvic_enabled = {}
  /\ machine.nvic_pending = {}

\* C20: a spi_write_read(write_buf, W, read_buf, R) that returns SFUD_SUCCESS
\* has made exactly one full-duplex transfer, of W + R > 0 bytes, sending the W
\* write bytes followed by R dummy bytes (0xFF), with the chip select asserted
\* before it and deasserted after it, and read_buf holds the last R of the
\* W + R bytes received; a call whose transfer fails returns SFUD_ERR_TIMEOUT
\* and writes nothing to read_buf.
C20_SerialTransaction ==
  /\ (Returned("spi_write_read") /\ call.ret = SFUD_SUCCESS)
       => LET W == Len(call.write_buf)
              R == call.read_size
          IN /\ W + R > 0
             /\ Len(bus) = 3
             /\ bus[1].prim = "HAL_GPIO_WritePin:RESET"
             /\ bus[2].prim = "HAL_SPI_TransmitReceive"
             /\ bus[2].ok
             /\ bus[3].prim = "HAL_GPIO_WritePin:SET"
             /\ Len(bus[2].data) = W + R
             /\ \A j \in 1..W : bus[2].data[j] = call.write_buf[j]
             /\ \A j \in (W + 1)..(W + R) : bus[2].data[j] = SFUD_DUMMY_DATA
             /\ Len(call.data) = R
             /\ \A j \in 1..R : call.data[j] = (3 + 7 * (W + j)) % 256
  /\ (Returned("spi_write_read")
      /\ \E k \in 1..Len(bus) :
           bus[k].prim = "HAL_SPI_TransmitReceive" /\ ~bus[k].ok)
       => /\ call.ret = SFUD_ERR_TIMEOUT
          /\ call.data = <<>>
          /\ Count(bus, "HAL_SPI_TransmitReceive") = 1

C20_Witness ==
  /\ Returned("spi_write_read")
  /\ call.ret = SFUD_SUCCESS
  /\ call.write_buf = <<11, 28, 45, 62>>
  /\ call.read_size = 2
  /\ Len(bus) = 3
  /\ bus[2].data = <<11, 28, 45, 62, 255, 255>>
  /\ call.data = <<38, 45>>

\* The line mode the HAL names for a valid line width.
LineMode(w) ==
  CASE w = 0 -> "NONE"
    [] w = 1 -> "1_LINE"
    [] w = 2 -> "2_LINES"
    [] w = 4 -> "4_LINES"
    [] w = 8 -> "8_LINES"

\* What a qspi_entry_memory_mapped_mode that returned SFUD_SUCCESS has done.
EntrySucceeded ==
  /\ Len(bus) = 2
  /\ bus[1].prim = "HAL_OSPI_Command"
  /\ bus[1].ok
  /\ bus[1].cmd.Instruction = call.fmt.instruction
  /\ bus[1].cmd.DummyCycles = call.fmt.dummy_cycles
  /\ bus[1].cmd.NbData = 0
  /\ call.fmt.instruction_lines \in ValidLines
       => bus[1].cmd.InstructionMode = LineMode(call.fmt.instruction_lines)
  /\ call.fmt.address_lines \in ValidLines
       => bus[1].cmd.AddressMode = LineMode(call.fmt.address_lines)
  /\ call.fmt.data_lines \in ValidLines
       => bus[1].cmd.DataMode = LineMode(call.fmt.data_lines)
  /\ bus[2].prim = "HAL_OSPI_MemoryMapped"
  /\ bus[2].ok
  /\ bus[2].cmd.TimeOutActivation = "HAL_OSPI_TIMEOUT_COUNTER_DISABLE"
  /\ mode = MemoryMappedMode

\* C21: the transport starts in command mode and leaves it only by a
\* qspi_entry_memory_mapped_mode that returns SFUD_SUCCESS; such a call has
\* issued exactly one configuration command built from the device's
\* ReadCommandFormat (instruction, line widths, dummy cycles) with NbData = 0,
\* then exactly one direct-mapped programming with the inactivity timeout
\* disabled, and the transport is in memory-mapped mode when it returns.
C21_EntrySuccess ==
  /\ mode = CommandMode
  /\ []((call.op = "qspi_entry_memory_mapped_mode" /\ call.ret = SFUD_SUCCESS)
          => EntrySucceeded)
  /\ [][(mode = CommandMode /\ mode' = MemoryMappedMode)
          => (call'.op = "qspi_entry_memory_mapped_mode"
              /\ call'.ret = SFUD_SUCCESS)]_vars

C21_Witness ==
  /\ Returned("qspi_entry_memory_mapped_mode")
  /\ call.mode = CommandMode
  /\ call.ret = SFUD_SUCCESS
  /\ call.fmt.data_lines = 4
  /\ Len(bus) = 2
  /\ bus[1].cmd.DataMode = "4_LINES"
  /\ bus[1].cmd.DummyCycles = 6
  /\ bus[2].prim = "HAL_OSPI_MemoryMapped"
  /\ mode = MemoryMappedMode

\* The operations of the mode controller, and the three transport operations.
ModeOps == {"qspi_entry_memory_mapped_mode", "qspi_exit_memory_mapped_mode"}
TransportOps == {"qspi_write_read", "qspi_read", "spi_write_read"}

\* C22: the transport mode changes only in a call of
\* qspi_entry_memory_mapped_mode or qspi_exit_memory_mapped_mode; a call of
\* qspi_write_read, qspi_read or spi_write_read returns with the mode it was
\* called in on every path, so a write rejected in memory-mapped mode leaves the
\* controller memory-mapped.
C22_NoImplicitModeSwitch ==
  [][ /\ mode' # mode => (call' # call /\ call'.op \in ModeOps)
      /\ (pc = "driver" /\ pc' = "return" /\ call'.op \in TransportOps)
           => (mode' = mode /\ call'.mode = mode)
      /\ (pc = "driver" /\ pc' = "return" /\ call'.op = "qspi_write_read"
          /\ mode = MemoryMappedMode)
           => (call'.ret = SFUD_ERR_WRITE /\ mode' = MemoryMappedMode
               /\ Count(bus', "HAL_OSPI_Abort") = 0
               /\ Count(bus', "HAL_OSPI_MemoryMapped") = 0) ]_vars

C22_Witness ==
  /\ Returned("qspi_write_read")
  /\ call.mode = MemoryMappedMode
  /\ mode = MemoryMappedMode
  /\ call.ret = SFUD_ERR_WRITE
  /\ Len(call.write_buf) = 1
  /\ prev.op = "qspi_entry_memory_mapped_mode"

\* C23: in one call of qspi_write_read, qspi_read, spi_write_read,
\* qspi_entry_memory_mapped_mode or qspi_exit_memory_mapped_mode each bus
\* primitive (command, transmit, receive, full-duplex transfer, memory-mapped
\* configuration, abort) is invoked at most once, and no bus primitive is
\* invoked after one that failed.
C23_NoInternalRetry ==
  call.op \in (TransportOps \cup ModeOps)
    => /\ \A p \in BusPrims : Count(bus, p) <= 1
       /\ \A k \in Prims(bus), j \in Prims(bus) : ~bus[k].ok => j <= k

C23_Witness ==
  /\ Returned("qspi_read")
  /\ call.mode = CommandMode
  /\ call.read_size = 2
  /\ Len(bus) = 1
  /\ bus[1].prim = "HAL_OSPI_Command"
  /\ ~bus[1].ok
  /\ call.ret = SFUD_ERR_READ

\* C24: when spi_write_read returns, on whatever path, every scratch buffer it
\* allocated has been freed: no buffer is ever left allocated.
C24_ScratchReleased ==
  allocated = 0

\* C25: the lock does not nest: every spi_lock disables interrupt delivery and
\* every spi_unlock enables it, also when another spi_lock is still
\* outstanding (an enclosing critical section), which the inner
\* spi_lock / spi_unlock pair thereby ends.
C25_LockDoesNotNest ==
  [][ /\ locks' > locks => primask'
      /\ locks' < locks => ~primask' ]_vars

\* An outer spi_lock is still outstanding and interrupt delivery is enabled.
C25_Witness ==
  /\ pc = "driver"
  /\ locks = 1
  /\ ~primask

=============================================================================
